---- MODULE Spec2Model ----
(***************************************************************************)
(* Model of Day_3/02_chatgpt_app/app.py: a Streamlit chat front-end that   *)
(* keeps several conversations as JSON files (chat_<id>.json) and one      *)
(* active conversation in st.session_state.                                *)
(*                                                                         *)
(* Text is a sequence of one-character strings, so that slicing, replace   *)
(* and strip are computed as Python computes them.  Every user interaction *)
(* is one script run from top to bottom; a handler that calls st.rerun()   *)
(* is followed by a fresh run without a click, so each action below ends   *)
(* with the auto-save at the bottom of the script.                         *)
(*                                                                         *)
(* json.dump/json.load: every stored value is a str, a list or a dict with *)
(* str keys, written with ensure_ascii=False as utf-8; the file is         *)
(* modelled by the object json.load returns for it.                        *)
(***************************************************************************)
EXTENDS Integers, Sequences, FiniteSets, TLC

VARIABLES
    store,            \* chat_history/: chat id -> [data, mtime] for each chat_<id>.json
    now,              \* the clock read by datetime.now() and by the file system
    current_chat_id,  \* st.session_state.current_chat_id
    messages,         \* st.session_state.messages
    chat_title,       \* st.session_state.chat_title
    feedback,         \* st.session_state.feedback: message index -> "up" | "down"
    lastOp            \* the interaction the last script run handled

vars == <<store, now, current_chat_id, messages, chat_title, feedback, lastOp>>

(***************************************************************************)
(* Bounds of the model.                                                    *)
(***************************************************************************)
MaxTime == 14     \* the clock stops the exploration at this tick
MaxFrags == 1     \* chunks of one streamed reply in Spec
MaxParts == 2     \* chunks of one streamed reply in SpecStream
MaxStoreTime == 10  \* the clock stops the exploration of SpecStore at this tick
MaxCrashTime == 8   \* the clock stops the exploration of SpecCrash at this tick

(***************************************************************************)
(* Text.                                                                   *)
(***************************************************************************)
TitleLen == 50

Ellipsis == <<".", ".", ".">>

NewChatTitle == <<"N", "e", "w", " ", "C", "h", "a", "t">>

\* Python's None where a str is expected (title=None)
None == <<"None">>

\* load_chat's None
NoRecord == [none |-> TRUE]

Whitespace == {" ", "\n", "\t"}

TOK_S == <<"<", "s", ">">>

TOK_IM_START == <<"<", "|", "i", "m", "_", "s", "t", "a", "r", "t", "|", ">">>

TOK_IM_END == <<"<", "|", "i", "m", "_", "e", "n", "d", "|", ">">>

TOK_OUT == <<"<", "|", "O", "U", "T", "|", ">">>

Sentinels == {TOK_S, TOK_IM_START, TOK_IM_END, TOK_OUT}

\* s[:n]
Take(s, n) == SubSeq(s, 1, IF Len(s) < n THEN Len(s) ELSE n)

\* s[n:]
Drop(s, n) == SubSeq(s, n + 1, Len(s))

\* s.startswith(p)
StartsWith(s, p) == Len(p) <= Len(s) /\ SubSeq(s, 1, Len(p)) = p

\* s.replace(old, ''): non-overlapping occurrences, leftmost first, one pass
RECURSIVE Replace(_, _)
Replace(s, old) ==
    IF Len(s) < Len(old) THEN s
    ELSE IF StartsWith(s, old) THEN Replace(Drop(s, Len(old)), old)
    ELSE <<Head(s)>> \o Replace(Tail(s), old)

\* the chain of four replace calls
CleanTokens(s) ==
    Replace(Replace(Replace(Replace(s, TOK_S), TOK_IM_START), TOK_IM_END), TOK_OUT)

RECURSIVE LStrip(_)
LStrip(s) == IF s # <<>> /\ Head(s) \in Whitespace THEN LStrip(Tail(s)) ELSE s

RECURSIVE RStrip(_)
RStrip(s) ==
    IF s # <<>> /\ s[Len(s)] \in Whitespace THEN RStrip(SubSeq(s, 1, Len(s) - 1)) ELSE s

\* s.strip()
Strip(s) == RStrip(LStrip(s))

\* mutant: >= where the code has >
AutoTitle_offByOne(content) ==
    Take(content, TitleLen) \o (IF Len(content) >= TitleLen THEN Ellipsis ELSE <<>>)

\* content[:50] + ("..." if len(content) > 50 else "")
AutoTitle(content) ==
    Take(content, TitleLen) \o (IF Len(content) > TitleLen THEN Ellipsis ELSE <<>>)

(***************************************************************************)
(* Chat persistence functions.                                             *)
(***************************************************************************)
Msg(role, content) == [role |-> role, content |-> content]

\* CHAT_STORAGE_DIR.glob("chat_*.json"), as chat ids
ChatFiles(s) == DOMAIN s

\* mutant: the sort without reverse=True
RECURSIVE SortByMtime_oldestFirst(_, _)
SortByMtime_oldestFirst(s, ids) ==
    IF ids = {} THEN <<>>
    ELSE LET oldest == CHOOSE i \in ids : \A j \in ids : s[i].mtime <= s[j].mtime
         IN  <<oldest>> \o SortByMtime_oldestFirst(s, ids \ {oldest})

RECURSIVE SortByMtime(_, _)
SortByMtime(s, ids) ==
    IF ids = {} THEN <<>>
    ELSE LET newest == CHOOSE i \in ids : \A j \in ids : s[j].mtime <= s[i].mtime
         IN  <<newest>> \o SortByMtime(s, ids \ {newest})

\* mutant: newest creation first
RECURSIVE SortByCreation(_, _)
SortByCreation(s, ids) ==
    IF ids = {} THEN <<>>
    ELSE LET newest == CHOOSE i \in ids :
                          \A j \in ids : s[j].data.created_at <= s[i].data.created_at
         IN  <<newest>> \o SortByCreation(s, ids \ {newest})

get_all_chats_byCreation(s) == SortByCreation(s, ChatFiles(s))

\* get_all_chats(): newest modification time first
get_all_chats(s) == SortByMtime(s, ChatFiles(s))

\* the order in which json.dump writes the keys of data
FieldOrder == <<"chat_id", "title", "messages", "created_at", "updated_at">>

\* json.load accepts the text of the file: all of the object is there
Parses(file) == DOMAIN file.data = {FieldOrder[i] : i \in 1..Len(FieldOrder)}

\* json.load raises on a text that stops early
JSONDecodeError == [raised |-> TRUE]

load_chat(s, chat_id) ==
    IF chat_id \in ChatFiles(s)
    THEN IF Parses(s[chat_id]) THEN s[chat_id].data ELSE JSONDecodeError
    ELSE NoRecord

\* mutant: the title derived whenever there are messages
ResolveTitle_alwaysDerives(msgs, title) ==
    LET users == {i \in 1..Len(msgs) : msgs[i].role = "user"}
        first == CHOOSE i \in users : \A j \in users : i <= j
        t1 == IF msgs # <<>> /\ users # {}
              THEN AutoTitle(msgs[first].content)
              ELSE title
    IN  IF t1 = None THEN NewChatTitle ELSE t1

\* the title lines 57-65 settle on
ResolveTitle(msgs, title) ==
    LET users == {i \in 1..Len(msgs) : msgs[i].role = "user"}
        first == CHOOSE i \in users : \A j \in users : i <= j
        t1 == IF title = None /\ msgs # <<>> /\ users # {}
              THEN AutoTitle(msgs[first].content)
              ELSE title
    IN  IF t1 = None THEN NewChatTitle ELSE t1

\* mutant: created_at of the old record not carried over
save_chat_newCreatedAt(s, t, chat_id, msgs, title) ==
    LET data == [chat_id |-> chat_id,
                 title |-> ResolveTitle(msgs, title),
                 messages |-> msgs,
                 created_at |-> t,
                 updated_at |-> t]
    IN  [i \in ChatFiles(s) \cup {chat_id} |->
            IF i = chat_id THEN [data |-> data, mtime |-> t] ELSE s[i]]

\* save_chat(chat_id, messages, title) at clock value t: the store afterwards
save_chat(s, t, chat_id, msgs, title) ==
    LET data == [chat_id |-> chat_id,
                 title |-> ResolveTitle(msgs, title),
                 messages |-> msgs,
                 created_at |-> IF chat_id \in ChatFiles(s)
                                THEN s[chat_id].data.created_at
                                ELSE t,
                 updated_at |-> t]
    IN  [i \in ChatFiles(s) \cup {chat_id} |->
            IF i = chat_id THEN [data |-> data, mtime |-> t] ELSE s[i]]

\* mutant: the file is left in place
delete_chat_keepsFile(s, chat_id) == s

delete_chat(s, chat_id) == [i \in ChatFiles(s) \ {chat_id} |-> s[i]]

\* create_new_chat(): datetime.now() formatted to the microsecond
create_new_chat(t) == t

get_chat_title(chat_data) == chat_data.title

(***************************************************************************)
(* The script run.                                                         *)
(***************************************************************************)
NoFeedback == [i \in {} |-> "up"]

\* mutant: the end-of-run save left out
AutoSave_skipped(s, t, id, msgs, title) == s

\* lines 367-373, reading the clock at t: the store afterwards
AutoSave(s, t, id, msgs, title) ==
    IF msgs # <<>> THEN save_chat(s, t, id, msgs, title) ELSE s

\* the clock after a save that happens only for a non-empty list
Tick(t, msgs) == IF msgs # <<>> THEN t + 1 ELSE t

\* mutant: the current chat not saved before it is replaced
NewChat_withoutSave ==
    /\ now + 2 <= MaxTime
    /\ current_chat_id' = create_new_chat(now)
    /\ now' = now + 1
    /\ messages' = <<>>
    /\ chat_title' = NewChatTitle
    /\ feedback' = NoFeedback
    /\ UNCHANGED store
    /\ lastOp' = [op |-> "new", prev |-> current_chat_id]

\* lines 141-155, then the run after st.rerun()
NewChat ==
    /\ now + 2 <= MaxTime
    /\ LET s1 == AutoSave(store, now, current_chat_id, messages, chat_title)
           t1 == Tick(now, messages)
       IN  /\ store' = s1
           /\ current_chat_id' = create_new_chat(t1)
           /\ now' = t1 + 1
    /\ messages' = <<>>
    /\ chat_title' = NewChatTitle
    /\ feedback' = NoFeedback
    /\ lastOp' = [op |-> "new", prev |-> current_chat_id]

\* mutant: line 195 left out, the title of the chat that was left stays
SwitchTo_staleTitle(chat_id) ==
    /\ now + 2 <= MaxTime
    /\ chat_id \in ChatFiles(store)
    /\ chat_id # current_chat_id
    /\ LET chat_data == load_chat(store, chat_id)
           s1 == AutoSave(store, now, current_chat_id, messages, chat_title)
           t1 == Tick(now, messages)
       IN  /\ current_chat_id' = chat_id
           /\ messages' = chat_data.messages
           /\ chat_title' = chat_title
           /\ store' = AutoSave(s1, t1, chat_id, chat_data.messages, chat_title)
           /\ now' = Tick(t1, chat_data.messages)
    /\ feedback' = NoFeedback
    /\ lastOp' = [op |-> "switch", prev |-> current_chat_id]

\* lines 177-197 for the list entry chat_id, then the run after st.rerun()
SwitchTo(chat_id) ==
    /\ now + 2 <= MaxTime
    /\ chat_id \in ChatFiles(store)
    /\ chat_id # current_chat_id            \* disabled=is_current
    /\ LET chat_data == load_chat(store, chat_id)
           s1 == AutoSave(store, now, current_chat_id, messages, chat_title)
           t1 == Tick(now, messages)
           title == get_chat_title(chat_data)
       IN  /\ current_chat_id' = chat_id
           /\ messages' = chat_data.messages
           /\ chat_title' = title
           /\ store' = AutoSave(s1, t1, chat_id, chat_data.messages, title)
           /\ now' = Tick(t1, chat_data.messages)
    /\ feedback' = NoFeedback
    /\ lastOp' = [op |-> "switch", prev |-> current_chat_id]

\* mutant: line 216 left out, the annotations survive the delete
DeleteChat_keepsFeedback(chat_id) ==
    /\ now + 2 <= MaxTime
    /\ chat_id \in ChatFiles(store)
    /\ LET all_chats == get_all_chats(store)
           s1 == delete_chat(store, chat_id)
           remaining_chats == SelectSeq(all_chats, LAMBDA c : c # chat_id)
           new_chat_data == load_chat(s1, remaining_chats[1])
           active == chat_id = current_chat_id
           fresh == active /\ remaining_chats = <<>>
           id1 == IF ~active THEN current_chat_id
                  ELSE IF fresh THEN create_new_chat(now) ELSE new_chat_data.chat_id
           msgs1 == IF ~active THEN messages
                    ELSE IF fresh THEN <<>> ELSE new_chat_data.messages
           title1 == IF ~active THEN chat_title
                     ELSE IF fresh THEN NewChatTitle ELSE new_chat_data.title
           t1 == IF fresh THEN now + 1 ELSE now
       IN  /\ current_chat_id' = id1
           /\ messages' = msgs1
           /\ chat_title' = title1
           /\ store' = AutoSave(s1, t1, id1, msgs1, title1)
           /\ now' = Tick(t1, msgs1)
    /\ UNCHANGED feedback
    /\ lastOp' = [op |-> "delete", prev |-> current_chat_id, id |-> chat_id,
                  tagged |-> feedback # NoFeedback]

\* mutant: lines 206-216 left out, the deleted conversation stays active
DeleteChat_keepsActive(chat_id) ==
    /\ now + 2 <= MaxTime
    /\ chat_id \in ChatFiles(store)
    /\ LET all_chats == get_all_chats(store)
           s1 == delete_chat(store, chat_id)
           remaining_chats == SelectSeq(all_chats, LAMBDA c : c # chat_id)
           new_chat_data == load_chat(s1, remaining_chats[1])
           active == FALSE
           fresh == active /\ remaining_chats = <<>>
           id1 == IF ~active THEN current_chat_id
                  ELSE IF fresh THEN create_new_chat(now) ELSE new_chat_data.chat_id
           msgs1 == IF ~active THEN messages
                    ELSE IF fresh THEN <<>> ELSE new_chat_data.messages
           title1 == IF ~active THEN chat_title
                     ELSE IF fresh THEN NewChatTitle ELSE new_chat_data.title
           t1 == IF fresh THEN now + 1 ELSE now
       IN  /\ current_chat_id' = id1
           /\ messages' = msgs1
           /\ chat_title' = title1
           /\ store' = AutoSave(s1, t1, id1, msgs1, title1)
           /\ now' = Tick(t1, msgs1)
    /\ UNCHANGED feedback
    /\ lastOp' = [op |-> "delete", prev |-> current_chat_id, id |-> chat_id,
                  tagged |-> feedback # NoFeedback]

\* mutant: the test of line 206 left out, every delete resets the session
DeleteChat_resetsAlways(chat_id) ==
    /\ now + 2 <= MaxTime
    /\ chat_id \in ChatFiles(store)
    /\ LET all_chats == get_all_chats(store)
           s1 == delete_chat(store, chat_id)
           remaining_chats == SelectSeq(all_chats, LAMBDA c : c # chat_id)
           new_chat_data == load_chat(s1, remaining_chats[1])
           active == TRUE
           fresh == active /\ remaining_chats = <<>>
           id1 == IF ~active THEN current_chat_id
                  ELSE IF fresh THEN create_new_chat(now) ELSE new_chat_data.chat_id
           msgs1 == IF ~active THEN messages
                    ELSE IF fresh THEN <<>> ELSE new_chat_data.messages
           title1 == IF ~active THEN chat_title
                     ELSE IF fresh THEN NewChatTitle ELSE new_chat_data.title
           t1 == IF fresh THEN now + 1 ELSE now
       IN  /\ current_chat_id' = id1
           /\ messages' = msgs1
           /\ chat_title' = title1
           /\ store' = AutoSave(s1, t1, id1, msgs1, title1)
           /\ now' = Tick(t1, msgs1)
    /\ feedback' = NoFeedback
    /\ lastOp' = [op |-> "delete", prev |-> current_chat_id, id |-> chat_id,
                  tagged |-> feedback # NoFeedback]

\* lines 201-218 for the list entry chat_id, then the run after st.rerun()
DeleteChat(chat_id) ==
    /\ now + 2 <= MaxTime
    /\ chat_id \in ChatFiles(store)
    /\ LET all_chats == get_all_chats(store)
           s1 == delete_chat(store, chat_id)
           remaining_chats == SelectSeq(all_chats, LAMBDA c : c # chat_id)
           new_chat_data == load_chat(s1, remaining_chats[1])
           active == chat_id = current_chat_id
           fresh == active /\ remaining_chats = <<>>
           id1 == IF ~active THEN current_chat_id
                  ELSE IF fresh THEN create_new_chat(now) ELSE new_chat_data.chat_id
           msgs1 == IF ~active THEN messages
                    ELSE IF fresh THEN <<>> ELSE new_chat_data.messages
           title1 == IF ~active THEN chat_title
                     ELSE IF fresh THEN NewChatTitle ELSE new_chat_data.title
           t1 == IF fresh THEN now + 1 ELSE now
       IN  /\ current_chat_id' = id1
           /\ messages' = msgs1
           /\ chat_title' = title1
           /\ feedback' = IF active THEN NoFeedback ELSE feedback
           /\ store' = AutoSave(s1, t1, id1, msgs1, title1)
           /\ now' = Tick(t1, msgs1)
    /\ lastOp' = [op |-> "delete", prev |-> current_chat_id, id |-> chat_id,
                  tagged |-> feedback # NoFeedback]

\* mutant: the save guarded by "if messages" like the other saves
ClearCurrent_skipsEmptySave ==
    /\ now + 2 <= MaxTime
    /\ messages' = <<>>
    /\ feedback' = NoFeedback
    /\ chat_title' = NewChatTitle
    /\ store' = AutoSave(store, now, current_chat_id, <<>>, NewChatTitle)
    /\ now' = now + 1
    /\ UNCHANGED current_chat_id
    /\ lastOp' = [op |-> "clear", prev |-> current_chat_id]

\* lines 230-235, then the run after st.rerun()
ClearCurrent ==
    /\ now + 2 <= MaxTime
    /\ messages' = <<>>
    /\ feedback' = NoFeedback
    /\ chat_title' = NewChatTitle
    /\ store' = save_chat(store, now, current_chat_id, <<>>, NewChatTitle)
    /\ now' = now + 1
    /\ UNCHANGED current_chat_id
    /\ lastOp' = [op |-> "clear", prev |-> current_chat_id]

(***************************************************************************)
(* Inputs: what the user types and what the completion stream delivers.    *)
(***************************************************************************)
Chars(c, n) == [i \in 1..n |-> c]

PromptShort == <<"h", "i">>

PromptExact == Chars("a", TitleLen)

PromptLong == Chars("a", TitleLen) \o <<"b">>

\* st.chat_input never submits an empty string
Prompts == {PromptExact, PromptLong}

FragPlain == <<"o", "k">>

FragMarked == <<" ", "a">> \o TOK_OUT \o <<"b", " ">>

FragWrapped == <<"x">> \o TOK_S \o <<"y">>

FragLeft == <<"<", "<", "s">>

FragRight == <<">", "s", ">">>

FragImOpen == <<"<", "|", "i", "m", "_">>

FragStart == <<"s", "t", "a", "r", "t", "|", ">">>

FragEnd == <<"e", "n", "d", "|", ">", "\n">>

\* chunk.choices[0].delta.content: None or a str
NoneChunk == [has |-> FALSE, content |-> <<>>]

TextChunk(c) == [has |-> TRUE, content |-> c]

\* the replies of the conversation life cycle
Fragments == {FragMarked}

Chunks == {TextChunk(f) : f \in Fragments}

Streams == UNION {[1..n -> Chunks] : n \in 0..MaxFrags}

\* the replies of the streaming turns: plain text, whole markers inside text,
\* markers cut in two by the chunking, and chunks without content
MarkerFragments ==
    {FragPlain, FragMarked, FragWrapped, FragLeft, FragRight, FragImOpen, FragStart, FragEnd}

MarkerChunks == {NoneChunk} \cup {TextChunk(f) : f \in MarkerFragments}

MarkerStreams == UNION {[1..n -> MarkerChunks] : n \in 0..MaxParts}

\* lines 325-339: response_text once the loop has consumed chunks
RECURSIVE Accumulate(_)
Accumulate(chunks) ==
    IF chunks = <<>> THEN <<>>
    ELSE LET n == Len(chunks)
             chunk == chunks[n]
         IN  Accumulate(SubSeq(chunks, 1, n - 1))
                \o (IF chunk.has THEN CleanTokens(chunk.content) ELSE <<>>)

\* lines 342-348
FinalCleanup(response_text) == Strip(CleanTokens(response_text))

\* lines 300-304: the working list and title once the prompt is appended
\* mutant: the user message is put in front of the list
WithPrompt_prepends(msgs, prompt) == <<Msg("user", prompt)>> \o msgs

WithPrompt(msgs, prompt) == Append(msgs, Msg("user", prompt))

TitleAfterPrompt(msgs, title, prompt) ==
    IF Len(WithPrompt(msgs, prompt)) = 1 THEN AutoTitle(prompt) ELSE title

\* lines 298-361 when the stream ends normally, then lines 367-373
SendOk(prompt, chunks) ==
    /\ now + 2 <= MaxTime
    /\ LET title1 == TitleAfterPrompt(messages, chat_title, prompt)
           response_text == FinalCleanup(Accumulate(chunks))
           msgs2 == Append(WithPrompt(messages, prompt), Msg("assistant", response_text))
           s1 == save_chat(store, now, current_chat_id, msgs2, title1)
       IN  /\ messages' = msgs2
           /\ chat_title' = title1
           /\ store' = AutoSave(s1, now + 1, current_chat_id, msgs2, title1)
           /\ now' = now + 2
    /\ UNCHANGED <<current_chat_id, feedback>>
    /\ lastOp' = [op |-> "send_ok", prev |-> current_chat_id, got |-> Len(chunks),
                  prompt |-> prompt, stream |-> chunks]

\* mutant: the except branch keeps what the stream delivered so far
SendFail_commitsPartial(prompt, chunks) ==
    /\ now + 2 <= MaxTime
    /\ LET title1 == TitleAfterPrompt(messages, chat_title, prompt)
           msgs1 == Append(WithPrompt(messages, prompt),
                           Msg("assistant", FinalCleanup(Accumulate(chunks))))
       IN  /\ messages' = msgs1
           /\ chat_title' = title1
           /\ store' = AutoSave(store, now, current_chat_id, msgs1, title1)
           /\ now' = Tick(now, msgs1)
    /\ UNCHANGED <<current_chat_id, feedback>>
    /\ lastOp' = [op |-> "send_fail", prev |-> current_chat_id, got |-> Len(chunks)]

\* lines 298-365 when create() or the stream raises after chunks, then lines 367-373
SendFail(prompt, chunks) ==
    /\ now + 2 <= MaxTime
    /\ LET title1 == TitleAfterPrompt(messages, chat_title, prompt)
           msgs1 == WithPrompt(messages, prompt)
       IN  /\ messages' = msgs1
           /\ chat_title' = title1
           /\ store' = AutoSave(store, now, current_chat_id, msgs1, title1)
           /\ now' = Tick(now, msgs1)
    /\ UNCHANGED <<current_chat_id, feedback>>
    /\ lastOp' = [op |-> "send_fail", prev |-> current_chat_id, got |-> Len(chunks)]

\* lines 285-295 for the button of message idx (0-based), then lines 367-373
Feedback(idx, tag) ==
    /\ now + 2 <= MaxTime
    /\ idx + 1 \in 1..Len(messages)
    /\ messages[idx + 1].role = "assistant"
    /\ feedback' = [i \in DOMAIN feedback \cup {idx} |-> IF i = idx THEN tag ELSE feedback[i]]
    /\ store' = AutoSave(store, now, current_chat_id, messages, chat_title)
    /\ now' = Tick(now, messages)
    /\ UNCHANGED <<current_chat_id, messages, chat_title>>
    /\ lastOp' = [op |-> "feedback", prev |-> current_chat_id]

\* a run that changes no conversation state (dark-mode toggle, summary), lines 367-373
Rerender ==
    /\ now + 2 <= MaxTime
    /\ store' = AutoSave(store, now, current_chat_id, messages, chat_title)
    /\ now' = Tick(now, messages)
    /\ UNCHANGED <<current_chat_id, messages, chat_title, feedback>>
    /\ lastOp' = [op |-> "render", prev |-> current_chat_id]

\* lines 104-127 on an empty session_state, then lines 367-373, from the
\* directory s at clock value t: the variables once the first run has ended
SessionStarts(s, t) ==
    LET all_chats == get_all_chats(s)
        latest_chat == load_chat(s, all_chats[1])
        fresh == all_chats = <<>>
        id1 == IF fresh THEN create_new_chat(t) ELSE latest_chat.chat_id
        msgs1 == IF fresh THEN <<>> ELSE latest_chat.messages
        title1 == IF fresh THEN NewChatTitle ELSE latest_chat.title
        t1 == IF fresh THEN t + 1 ELSE t
    IN  [current_chat_id |-> id1,
         messages |-> msgs1,
         chat_title |-> title1,
         store |-> AutoSave(s, t1, id1, msgs1, title1),
         now |-> Tick(t1, msgs1)]

\* a new browser session on the same directory
NewSession ==
    /\ now + 2 <= MaxTime
    /\ LET st == SessionStarts(store, now)
       IN  /\ current_chat_id' = st.current_chat_id
           /\ messages' = st.messages
           /\ chat_title' = st.chat_title
           /\ store' = st.store
           /\ now' = st.now
    /\ feedback' = NoFeedback
    /\ lastOp' = [op |-> "session", prev |-> current_chat_id]

(***************************************************************************)
(* The first session starts on a directory that is empty or holds what an  *)
(* earlier session wrote: chat 0 with one unanswered prompt (a failed      *)
(* turn at tick 1, saved again at tick 2 by New Chat, which made chat 3)   *)
(* and chat 3 with one answered prompt (saved at ticks 4 and 5).           *)
(***************************************************************************)
EmptyDisk == [i \in {} |-> NoRecord]

OldDisk ==
    LET a == <<Msg("user", PromptExact)>>
        b == <<Msg("user", PromptLong),
               Msg("assistant", FinalCleanup(Accumulate(<<TextChunk(FragMarked)>>)))>>
        s1 == save_chat(EmptyDisk, 1, create_new_chat(0), a, AutoTitle(PromptExact))
        s2 == save_chat(s1, 2, create_new_chat(0), a, AutoTitle(PromptExact))
        s3 == save_chat(s2, 4, create_new_chat(3), b, AutoTitle(PromptLong))
    IN  save_chat(s3, 5, create_new_chat(3), b, AutoTitle(PromptLong))

Disks == {EmptyDisk, OldDisk}

SessionStart == 5 + 1

Init ==
    /\ \E disk \in Disks :
          LET st == SessionStarts(disk, SessionStart)
          IN  /\ current_chat_id = st.current_chat_id
              /\ messages = st.messages
              /\ chat_title = st.chat_title
              /\ store = st.store
              /\ now = st.now
    /\ feedback = NoFeedback
    /\ lastOp = [op |-> "init"]

Next ==
    \/ NewChat
    \/ \E chat_id \in ChatFiles(store) : SwitchTo(chat_id)
    \/ \E chat_id \in ChatFiles(store) : DeleteChat(chat_id)
    \/ ClearCurrent
    \/ \E prompt \in Prompts, chunks \in Streams : SendOk(prompt, chunks)
    \/ \E prompt \in Prompts, chunks \in Streams : SendFail(prompt, chunks)
    \/ \E idx \in 0..(Len(messages) - 1), tag \in {"up", "down"} : Feedback(idx, tag)
    \/ Rerender
    \/ NewSession

Spec == Init /\ [][Next]_vars

(***************************************************************************)
(* The streaming turns alone: short prompts, reply streams that carry       *)
(* markers, and Clear Current Chat between two turns.                      *)
(***************************************************************************)
NextStream ==
    \/ /\ lastOp.op # "send_ok"
       /\ \E chunks \in MarkerStreams : SendOk(PromptShort, chunks)
    \/ /\ lastOp.op = "send_ok"
       /\ ClearCurrent

SpecStream == Init /\ [][NextStream]_vars

(***************************************************************************)
(* The persistence functions alone, called with arguments of the caller's  *)
(* choice on the start-up directory: save_chat with and without a title,   *)
(* delete_chat of ids that have a file and of ids that have none.          *)
(***************************************************************************)
StoreIds == {create_new_chat(0), create_new_chat(3), create_new_chat(SessionStart)}

StoreMessages ==
    {<<>>,
     <<Msg("user", PromptLong), Msg("assistant", <<"a", "b">>)>>,
     <<Msg("assistant", FragPlain)>>}

StoreTitles == {None, <<>>, <<"t">>}

CallSave(chat_id, msgs, title) ==
    /\ now < MaxStoreTime
    /\ store' = save_chat(store, now, chat_id, msgs, title)
    /\ now' = now + 1
    /\ UNCHANGED <<current_chat_id, messages, chat_title, feedback>>
    /\ lastOp' = [op |-> "save", id |-> chat_id, messages |-> msgs, title |-> title,
                  existed |-> chat_id \in ChatFiles(store)]

CallDelete(chat_id) ==
    /\ store' = delete_chat(store, chat_id)
    /\ UNCHANGED <<now, current_chat_id, messages, chat_title, feedback>>
    /\ lastOp' = [op |-> "delete", id |-> chat_id, existed |-> chat_id \in ChatFiles(store),
                  again |-> lastOp.op = "delete" /\ lastOp.id = chat_id]

NextStore ==
    \/ \E chat_id \in StoreIds, msgs \in StoreMessages, title \in StoreTitles :
          CallSave(chat_id, msgs, title)
    \/ \E chat_id \in StoreIds : CallDelete(chat_id)

SpecStore == Init /\ [][NextStore]_vars

(***************************************************************************)
(* save_chat stopped between open(chat_file, 'w') and the end of json.dump *)
(* (the process is killed, the disk is full): the old text is gone and the *)
(* file holds what had been written by then.                               *)
(***************************************************************************)
CrashMessages == {<<>>, <<Msg("assistant", FragPlain)>>}

CrashTitles == {None, <<"t">>}

\* the keys json.dump had written when it stopped: none up to all five
Written == 0..Len(FieldOrder)

\* the file with the first k keys of data
Torn(data, k) == [f \in {FieldOrder[i] : i \in 1..k} |-> data[f]]

\* line 78 reads the old file first: a file that does not parse makes it raise
Readable(s, chat_id) == chat_id \in ChatFiles(s) => Parses(s[chat_id])

SaveWhole(chat_id, msgs, title) ==
    /\ now < MaxCrashTime
    /\ Readable(store, chat_id)
    /\ CallSave(chat_id, msgs, title)

SaveInterrupted(chat_id, msgs, title, k) ==
    /\ now < MaxCrashTime
    /\ Readable(store, chat_id)
    /\ LET whole == save_chat(store, now, chat_id, msgs, title)[chat_id]
       IN  /\ store' = [i \in ChatFiles(store) \cup {chat_id} |->
                           IF i = chat_id
                           THEN [data |-> Torn(whole.data, k), mtime |-> now]
                           ELSE store[i]]
           /\ lastOp' = [op |-> "save_interrupted", id |-> chat_id,
                         existed |-> chat_id \in ChatFiles(store),
                         old |-> load_chat(store, chat_id), new |-> whole.data]
    /\ now' = now + 1
    /\ UNCHANGED <<current_chat_id, messages, chat_title, feedback>>

SaveRaises(chat_id) ==
    /\ ~Readable(store, chat_id)
    /\ UNCHANGED <<store, now, current_chat_id, messages, chat_title, feedback>>
    /\ lastOp' = [op |-> "save_raised", id |-> chat_id]

NextCrash ==
    \/ \E chat_id \in StoreIds, msgs \in CrashMessages, title \in CrashTitles :
          SaveWhole(chat_id, msgs, title)
    \/ \E chat_id \in StoreIds, msgs \in CrashMessages, title \in CrashTitles, k \in Written :
          SaveInterrupted(chat_id, msgs, title, k)
    \/ \E chat_id \in StoreIds : SaveRaises(chat_id)
    \/ \E chat_id \in StoreIds : CallDelete(chat_id)

SpecCrash == Init /\ [][NextCrash]_vars

(***************************************************************************)
(* Properties.                                                             *)
(***************************************************************************)
Assistants(msgs) == Cardinality({i \in 1..Len(msgs) : msgs[i].role = "assistant"})

StoredMessages(s, id) == IF id \in ChatFiles(s) THEN s[id].data.messages ELSE <<>>

\* what a reader of the record sees besides the timestamps
RecordView(s, id) ==
    IF id \in ChatFiles(s)
    THEN [exists |-> TRUE, messages |-> s[id].data.messages, title |-> s[id].data.title]
    ELSE [exists |-> FALSE, messages |-> <<>>, title |-> <<>>]

FailedTurn == lastOp'.op = "send_fail"

\* C1: a turn whose reply-producing call fails, at initiation or after some
\* fragments, leaves a record for the active conversation that holds as many
\* assistant messages as the record held before the turn.
C1_FailedTurnStoresNoAssistant ==
    [][FailedTurn =>
          /\ current_chat_id \in ChatFiles(store')
          /\ Assistants(StoredMessages(store', current_chat_id))
                = Assistants(StoredMessages(store, current_chat_id))]_vars

\* a failed turn after at least one fragment, in a conversation that already
\* holds an assistant message
C1_Witness ==
    /\ lastOp.op = "send_fail"
    /\ lastOp.got >= 1
    /\ Assistants(StoredMessages(store, current_chat_id)) >= 1
    /\ messages[Len(messages)].role = "user"

\* C2 as stated: a failed turn leaves the active conversation's record (its
\* existence, messages and title) as it was before the prompt was submitted.
C2_FailedTurnLeavesStoreUnchanged ==
    [][FailedTurn =>
          RecordView(store', current_chat_id) = RecordView(store, current_chat_id)]_vars

\* C2 amended: a failed turn changes the store in one way only: the active
\* conversation's record is written (created if missing) with the user message
\* appended to the messages it held and no assistant message; the title is the
\* one derived from the prompt if that is the first message and the stored title
\* otherwise; every other record is untouched.
C2_FailedTurnStoresPromptOnly ==
    [][FailedTurn =>
          \E prompt \in Prompts :
             /\ ChatFiles(store') = ChatFiles(store) \cup {current_chat_id}
             /\ \A id \in ChatFiles(store) \ {current_chat_id} : store'[id] = store[id]
             /\ StoredMessages(store', current_chat_id)
                   = Append(StoredMessages(store, current_chat_id), Msg("user", prompt))
             /\ store'[current_chat_id].data.title
                   = IF StoredMessages(store, current_chat_id) = <<>>
                     THEN AutoTitle(prompt)
                     ELSE store[current_chat_id].data.title]_vars

\* a failed first turn of a new conversation: the record now exists, titled
\* after the prompt
C2_Witness ==
    /\ lastOp.op = "send_fail"
    /\ Len(messages) = 1
    /\ current_chat_id \in ChatFiles(store)
    /\ store[current_chat_id].data.created_at = store[current_chat_id].data.updated_at
    /\ store[current_chat_id].data.title = AutoTitle(messages[1].content)

DeletedActive == lastOp'.op = "delete" /\ lastOp'.id = current_chat_id

\* the working copy belongs to a record, or is the blank conversation
ValidActive ==
    \/ /\ current_chat_id \in ChatFiles(store)
       /\ messages = store[current_chat_id].data.messages
       /\ chat_title = store[current_chat_id].data.title
    \/ /\ current_chat_id \notin ChatFiles(store)
       /\ messages = <<>>
       /\ chat_title = NewChatTitle

\* C3: deleting the active conversation makes the most recently modified of
\* the remaining records active, with its id, messages and title, or, if none
\* remains, a conversation with a fresh id, no messages and the title
\* "New Chat"; there is an active conversation in every reachable state.
C3_DeleteActiveLeavesValidActive ==
    /\ []ValidActive
    /\ [][DeletedActive =>
             LET remaining == ChatFiles(store) \ {current_chat_id}
             IN  IF remaining # {}
                 THEN /\ current_chat_id' \in remaining
                      /\ \A id \in remaining :
                            store[id].mtime <= store[current_chat_id'].mtime
                      /\ messages' = store[current_chat_id'].data.messages
                      /\ chat_title' = store[current_chat_id'].data.title
                      /\ current_chat_id' \in ChatFiles(store')
                 ELSE /\ current_chat_id' \notin ChatFiles(store)
                      /\ current_chat_id' \notin ChatFiles(store')
                      /\ messages' = <<>>
                      /\ chat_title' = NewChatTitle]_vars

\* the active conversation was deleted while two others remained, and the one
\* made active is not the one created last
C3_Witness ==
    /\ lastOp.op = "delete"
    /\ lastOp.id = lastOp.prev
    /\ Cardinality(ChatFiles(store)) >= 2
    /\ current_chat_id \in ChatFiles(store)
    /\ \E id \in ChatFiles(store) : id > current_chat_id

\* s occurs in text as a substring
Contains(text, s) ==
    \E i \in 1..(Len(text) - Len(s) + 1) : SubSeq(text, i, i + Len(s) - 1) = s

Committed == {i \in 1..Len(messages) : messages[i].role = "assistant"}

\* C4: whatever the fragments were, an assistant message committed by a
\* successful turn, in the working list and in the stored record, contains
\* none of the four sentinel markers.
C4_CommittedReplyHasNoSentinel ==
    lastOp.op = "send_ok" =>
        /\ \A i \in Committed : \A tok \in Sentinels : ~Contains(messages[i].content, tok)
        /\ \A i \in Committed : \A tok \in Sentinels :
              ~Contains(StoredMessages(store, current_chat_id)[i].content, tok)

\* C5: load_chat right after save_chat with an explicit title returns a record
\* whose id, messages and title are the saved arguments, for the empty message
\* list too.
C5_LoadReturnsWhatWasSaved ==
    (lastOp.op = "save" /\ lastOp.title # None) =>
        LET data == load_chat(store, lastOp.id)
        IN  /\ data # NoRecord
            /\ data.chat_id = lastOp.id
            /\ data.messages = lastOp.messages
            /\ data.title = lastOp.title

\* an empty list saved under the empty title over a record that held messages
C5_Witness ==
    /\ lastOp.op = "save"
    /\ lastOp.existed
    /\ lastOp.title = <<>>
    /\ lastOp.messages = <<>>
    /\ load_chat(store, lastOp.id).messages = <<>>
    /\ load_chat(store, lastOp.id).created_at < load_chat(store, lastOp.id).updated_at

\* C6: a save onto an existing record keeps its created_at, a save onto a
\* missing id sets created_at to the time of the save, and every save sets
\* updated_at to the time of the save; so updated_at never decreases and is
\* never before created_at.
C6_CreatedAtKept ==
    [][\A id \in ChatFiles(store') :
          LET new == store'[id].data
              existed == id \in ChatFiles(store)
              written == ~existed \/ store'[id] # store[id]
          IN  /\ existed => /\ new.created_at = store[id].data.created_at
                            /\ new.updated_at >= store[id].data.updated_at
              /\ ~existed => (now <= new.created_at /\ new.created_at < now')
              /\ written => (now <= new.updated_at /\ new.updated_at < now')
              /\ new.created_at <= new.updated_at]_vars

\* a record cleared after it was created: rewritten at the last tick, created earlier
C6_Witness ==
    /\ lastOp.op = "clear"
    /\ store[current_chat_id].data.created_at < SessionStart
    /\ store[current_chat_id].data.updated_at = now - 1

FirstUser(msgs) ==
    LET users == {i \in 1..Len(msgs) : msgs[i].role = "user"}
    IN  msgs[CHOOSE i \in users : \A j \in users : i <= j].content

HasUser(msgs) == \E i \in 1..Len(msgs) : msgs[i].role = "user"

\* title is the first min(L,50) characters of content, then "..." iff L > 50
TitleRule(title, content) ==
    LET L == Len(content)
        k == IF L < 50 THEN L ELSE 50
    IN  /\ Len(title) = IF L > 50 THEN k + 3 ELSE k
        /\ \A i \in 1..k : title[i] = content[i]
        /\ L > 50 => \A i \in (k + 1)..(k + 3) : title[i] = "."

TitleProbes ==
    {<<Msg("user", PromptShort)>>,
     <<Msg("user", PromptExact)>>,
     <<Msg("user", PromptLong)>>,
     <<Msg("assistant", PromptLong), Msg("user", PromptShort), Msg("user", PromptLong)>>}

\* C7: every stored record with messages, and the working copy, is titled
\* after its first user message by the 50-character rule; save_chat without a
\* title derives the same title, and "New Chat" when no user message exists.
C7_TitleFollowsFirstUserMessage ==
    /\ \A id \in ChatFiles(store) :
          store[id].data.messages # <<>> =>
             /\ HasUser(store[id].data.messages)
             /\ TitleRule(store[id].data.title, FirstUser(store[id].data.messages))
    /\ messages # <<>> => TitleRule(chat_title, FirstUser(messages))
    /\ \A msgs \in TitleProbes : TitleRule(ResolveTitle(msgs, None), FirstUser(msgs))
    /\ ResolveTitle(<<>>, None) = NewChatTitle
    /\ ResolveTitle(<<Msg("assistant", PromptLong)>>, None) = NewChatTitle

\* a conversation started in this session with a 51-character prompt, beside a
\* stored one titled by a prompt of exactly 50 characters
C7_Witness ==
    /\ lastOp.op \in {"send_ok", "send_fail"}
    /\ current_chat_id >= SessionStart
    /\ messages[1].content = PromptLong
    /\ store[current_chat_id].data.title = Take(PromptLong, 50) \o Ellipsis
    /\ \E id \in ChatFiles(store) : store[id].data.title = PromptExact

\* C8: get_all_chats lists every record of the store once, and nothing else,
\* the most recently written first.
C8_ListNewestFirst ==
    LET list == get_all_chats(store)
    IN  /\ Len(list) = Cardinality(ChatFiles(store))
        /\ {list[i] : i \in 1..Len(list)} = ChatFiles(store)
        /\ \A i, j \in 1..Len(list) :
              i < j => store[list[i]].data.updated_at > store[list[j]].data.updated_at

\* three records, written in the order 3, 6, 0 after one was deleted and saved again
C8_Witness ==
    /\ get_all_chats(store) = <<0, 6, 3>>
    /\ lastOp.op = "save"
    /\ lastOp.id = 0
    /\ ~lastOp.existed

\* C9: Clear Current Chat leaves the working list empty, the title "New Chat",
\* no annotations and the same active id, and a record under that id from
\* which load_chat returns no messages and the title "New Chat".
C9_ClearPersistsEmptyChat ==
    lastOp.op = "clear" =>
        /\ messages = <<>>
        /\ chat_title = NewChatTitle
        /\ feedback = NoFeedback
        /\ current_chat_id = lastOp.prev
        /\ load_chat(store, current_chat_id) # NoRecord
        /\ load_chat(store, current_chat_id).messages = <<>>
        /\ load_chat(store, current_chat_id).title = NewChatTitle
        /\ load_chat(store, current_chat_id).updated_at = now - 1

\* a conversation that had been saved with messages was cleared
C9_Witness ==
    /\ lastOp.op = "clear"
    /\ current_chat_id \in ChatFiles(store)
    /\ store[current_chat_id].data.created_at < store[current_chat_id].data.updated_at
    /\ store[current_chat_id].data.messages = <<>>

Left == lastOp'.op \in {"new", "switch"} /\ messages # <<>>

\* C10: New Chat and a switch away from a conversation with messages write it
\* first: afterwards its record, written in that step, has the messages and
\* title of the working copy; New Chat then makes a conversation with a new
\* id, no messages and the title "New Chat" active.
C10_SavedBeforeLeaving ==
    [][/\ Left =>
            /\ current_chat_id \in ChatFiles(store')
            /\ store'[current_chat_id].data.messages = messages
            /\ store'[current_chat_id].data.title = chat_title
            /\ store'[current_chat_id].data.updated_at = now
            /\ current_chat_id' # current_chat_id
       /\ lastOp'.op = "new" =>
            /\ current_chat_id' \notin ChatFiles(store) \cup {current_chat_id}
            /\ current_chat_id' \notin ChatFiles(store')
            /\ messages' = <<>>
            /\ chat_title' = NewChatTitle]_vars

\* a conversation begun in this session was left by New Chat and its record
\* holds its two messages
C10_Witness ==
    /\ lastOp.op = "new"
    /\ lastOp.prev >= SessionStart
    /\ lastOp.prev \in ChatFiles(store)
    /\ Len(store[lastOp.prev].data.messages) = 2
    /\ messages = <<>>

Switched == lastOp'.op = "switch"

\* C11: a switch to a conversation that has a record makes its id active and
\* the working list and title those of the record stored under that id when
\* the button was pressed; saving the conversation that is left does not
\* touch that record.
C11_SwitchLoadsTheRecord ==
    [][Switched =>
          /\ current_chat_id' \in ChatFiles(store)
          /\ current_chat_id' # current_chat_id
          /\ messages' = store[current_chat_id'].data.messages
          /\ chat_title' = store[current_chat_id'].data.title
          /\ RecordView(store', current_chat_id') = RecordView(store, current_chat_id')
          /\ store'[current_chat_id'].data.created_at
                = store[current_chat_id'].data.created_at]_vars

\* a switch away from a conversation with messages, which was saved, to
\* another conversation with other messages
C11_Witness ==
    /\ lastOp.op = "switch"
    /\ lastOp.prev \in ChatFiles(store)
    /\ store[lastOp.prev].data.messages # <<>>
    /\ store[lastOp.prev].data.updated_at = now - 2
    /\ messages # <<>>
    /\ messages # store[lastOp.prev].data.messages
    /\ chat_title # store[lastOp.prev].data.title

RecordFields == {"chat_id", "title", "messages", "created_at", "updated_at"}

\* the annotations belong to assistant messages of the working list
AnnotationsOfActive ==
    \A idx \in DOMAIN feedback :
        /\ idx + 1 \in 1..Len(messages)
        /\ messages[idx + 1].role = "assistant"

\* no file holds annotations
NoStoredAnnotations ==
    \A id \in ChatFiles(store) :
        /\ DOMAIN store[id].data = RecordFields
        /\ \A i \in 1..Len(store[id].data.messages) :
              DOMAIN store[id].data.messages[i] = {"role", "content"}

\* C12: every step that changes the active conversation id, and Clear Current
\* Chat, leaves no annotations; so the annotations present always belong to
\* messages of the active conversation, and no record holds annotations.
C12_AnnotationsClearedOnChange ==
    /\ [](AnnotationsOfActive /\ NoStoredAnnotations)
    /\ [][(current_chat_id' # current_chat_id \/ lastOp'.op = "clear")
             => feedback' = NoFeedback]_vars

\* the active conversation was deleted while it carried an annotation
C12_Witness ==
    /\ lastOp.op = "delete"
    /\ lastOp.id = lastOp.prev
    /\ lastOp.tagged
    /\ current_chat_id # lastOp.prev
    /\ messages # <<>>
    /\ feedback = NoFeedback

Listed(s, id) == \E i \in 1..Len(get_all_chats(s)) : get_all_chats(s)[i] = id

\* C14: delete_chat removes the record of the id and nothing else: afterwards
\* load_chat finds nothing and the listing leaves the id out; called for an id
\* that has no record (a second delete, or an id never saved) it completes and
\* leaves the directory as it was.
C14_DeleteIdempotent ==
    [][lastOp'.op = "delete" =>
          /\ ChatFiles(store') = ChatFiles(store) \ {lastOp'.id}
          /\ load_chat(store', lastOp'.id) = NoRecord
          /\ ~Listed(store', lastOp'.id)
          /\ \A j \in ChatFiles(store') : store'[j] = store[j]
          /\ (lastOp'.id \notin ChatFiles(store) => store' = store)
          /\ delete_chat(store', lastOp'.id) = store']_vars

\* the same id deleted a second time, with other records still there
C14_Witness ==
    /\ lastOp.op = "delete"
    /\ lastOp.again
    /\ ~lastOp.existed
    /\ lastOp.id \notin ChatFiles(store)
    /\ ChatFiles(store) # {}

IsPrefix(a, b) == Len(a) <= Len(b) /\ Take(b, Len(a)) = a

\* C16: a step never rewrites a stored message list: for every id that keeps its
\* record, the list stored before is a prefix of the list stored after, except
\* that Clear Current Chat stores the empty list under the active id.
C16_StoredListsAppendOnly ==
    [][\A id \in ChatFiles(store) \cap ChatFiles(store') :
          \/ IsPrefix(store[id].data.messages, store'[id].data.messages)
          \/ /\ lastOp'.op = "clear"
             /\ id = current_chat_id
             /\ store'[id].data.messages = <<>>]_vars

\* a second turn was appended to a stored first turn
C16_Witness ==
    /\ lastOp.op = "send_ok"
    /\ current_chat_id \in ChatFiles(store)
    /\ Len(store[current_chat_id].data.messages) >= 4
    /\ store[current_chat_id].data.messages[3].role = "user"
    /\ store[current_chat_id].data.updated_at = now - 1

\* C17: deleting a conversation other than the active one removes that record
\* only: the active id, the working list, the title and the annotations stay
\* as they were, and every other record keeps its messages and its title.
C17_DeleteOtherTouchesNothingElse ==
    [][(lastOp'.op = "delete" /\ lastOp'.id # current_chat_id) =>
          /\ UNCHANGED <<current_chat_id, messages, chat_title, feedback>>
          /\ ChatFiles(store') = ChatFiles(store) \ {lastOp'.id}
          /\ \A j \in ChatFiles(store') :
                /\ RecordView(store', j) = RecordView(store, j)
                /\ store'[j].data.created_at = store[j].data.created_at]_vars

\* another conversation was deleted while the active one had an annotated reply
C17_Witness ==
    /\ lastOp.op = "delete"
    /\ lastOp.id # lastOp.prev
    /\ current_chat_id = lastOp.prev
    /\ lastOp.tagged
    /\ feedback # NoFeedback
    /\ messages # <<>>
    /\ ChatFiles(store) \ {current_chat_id} # {}

\* C18: between interactions the file of the active conversation, if there is
\* one, holds the working list and the working title, and a non-empty working
\* list always has a file.
C18_StoreAgreesWithWorkingCopy ==
    /\ current_chat_id \in ChatFiles(store) =>
          /\ store[current_chat_id].data.messages = messages
          /\ store[current_chat_id].data.title = chat_title
    /\ messages # <<>> => current_chat_id \in ChatFiles(store)

\* a failed turn left a titled user message, and the file has it
C18_Witness ==
    /\ lastOp.op = "send_fail"
    /\ Len(messages) = 1
    /\ chat_title # NewChatTitle
    /\ current_chat_id \in ChatFiles(store)
    /\ store[current_chat_id].data.messages = messages
    /\ store[current_chat_id].data.created_at = now - 1

\* the id was given out earlier, has no file and is not the active one
Gone(id) ==
    /\ id < now
    /\ id \notin ChatFiles(store)
    /\ id # current_chat_id

\* C19: a step that deletes a conversation leaves its id without a file and not
\* active, and an id in that condition stays in it through every later step,
\* the saves before a switch or a new chat and the save that ends each run
\* included.
C19_DeletedStaysDeleted ==
    [][\A id \in 0..MaxTime :
          /\ (lastOp'.op = "delete" /\ lastOp'.id = id) => Gone(id)'
          /\ Gone(id) => Gone(id)']_vars

\* the conversation active at the start was deleted, and a turn was then
\* completed and saved in the other one
C19_Witness ==
    /\ lastOp.op = "send_ok"
    /\ ChatFiles(OldDisk) \ ChatFiles(store) # {}
    /\ current_chat_id \in ChatFiles(OldDisk)
    /\ \E id \in ChatFiles(OldDisk) : Gone(id) /\ id > current_chat_id

\* the contents of the chunks that have one, in arrival order
RECURSIVE Concat(_)
Concat(chunks) ==
    IF chunks = <<>> THEN <<>>
    ELSE Concat(SubSeq(chunks, 1, Len(chunks) - 1))
            \o (IF chunks[Len(chunks)].has THEN chunks[Len(chunks)].content ELSE <<>>)

\* the text with the markers taken out until none is left
RECURSIVE Purge(_)
Purge(s) == IF CleanTokens(s) = s THEN s ELSE Purge(CleanTokens(s))

\* C15: a successful turn appends to the working list the user message and then
\* one assistant message, whose content is the contents of the chunks in
\* arrival order with the sentinel markers removed and the surrounding
\* whitespace stripped, and the record saved at the end of the turn ends with
\* these two messages.
C15_TurnCommitsUserThenCleanReply ==
    [][lastOp'.op = "send_ok" =>
          LET reply == Strip(Purge(Concat(lastOp'.stream)))
              turn == <<Msg("user", lastOp'.prompt), Msg("assistant", reply)>>
          IN  /\ messages' = messages \o turn
              /\ current_chat_id' \in ChatFiles(store')
              /\ store'[current_chat_id'].data.messages = messages \o turn]_vars

\* the same with the reply as lines 325-348 compute it: one pass over each
\* chunk and one over the whole
C15_TurnCommitsUserThenReply ==
    [][lastOp'.op = "send_ok" =>
          LET reply == FinalCleanup(Accumulate(lastOp'.stream))
              turn == <<Msg("user", lastOp'.prompt), Msg("assistant", reply)>>
          IN  /\ messages' = messages \o turn
              /\ current_chat_id' \in ChatFiles(store')
              /\ store'[current_chat_id'].data.messages = messages \o turn
              /\ (\A tok \in Sentinels : ~Contains(reply, tok))
                    => reply = Strip(Purge(Concat(lastOp'.stream)))]_vars

\* C13: after a save of an existing record that stopped part-way, load_chat
\* returns the whole old record or the whole new one.
C13_InterruptedSaveLeavesWholeRecord ==
    (lastOp.op = "save_interrupted" /\ lastOp.existed) =>
        load_chat(store, lastOp.id) \in {lastOp.old, lastOp.new}
====
